---- MODULE Spec2Model ----
(***************************************************************************)
(* MusicVisualizer: the audio route controller (handlers/                  *)
(* sound_device_handler.py) as main() in main.py drives it.                *)
(*                                                                         *)
(* The operating system's state is the persisted process -> endpoint table *)
(* (one entry per role) and the microphone's property store (the "listen   *)
(* to this device" checkbox and target device).  main() is a sequential    *)
(* program whose position is pc; the two generator based context managers  *)
(* are entered and left as Python's contextlib does it: on a normal exit   *)
(* the generator is resumed after its yield, on an exception the exception *)
(* is thrown into the generator AT its yield, and as neither generator     *)
(* wraps its yield in try/finally the statements after the yield are then  *)
(* not executed.                                                           *)
(***************************************************************************)
EXTENDS Integers, Sequences, FiniteSets, TLC

(***************************************************************************)
(* Bounds of the model.                                                    *)
(***************************************************************************)
NumRender == 2      \* render endpoints the OS enumerates
MaxPid == 2         \* process ids 1..MaxPid
MaxBuffers == 2     \* capture buffers counted before the count saturates
MaxDevices == 2     \* devices enumerated per data flow by a directory lookup
MaxFrames == 6      \* frames in a delivered capture buffer
MaxTime == 1        \* longest track, in seconds, a session reports

(***************************************************************************)
(* Python values.                                                          *)
(***************************************************************************)
\* Optional[str]: None, or a string.
None == [some |-> FALSE, val |-> ""]
Some(s) == [some |-> TRUE, val |-> s]
\* Python truthiness of an Optional[str]: None and "" are falsy.
Truthy(o) == o.some /\ Len(o.val) > 0

Min(a, b) == IF a < b THEN a ELSE b
Max(a, b) == IF a > b THEN a ELSE b

\* s[a:b] with Python's clamping of out-of-range and negative bounds.
PyIndex(i, n) == IF i < 0 THEN Max(n + i, 0) ELSE Min(i, n)
PySlice(s, a, b) ==
    LET lo == PyIndex(a, Len(s))
        hi == PyIndex(b, Len(s))
    IN  IF lo >= hi THEN "" ELSE SubSeq(s, lo + 1, hi)

(***************************************************************************)
(* sound_device_handler.py: constants and pure helpers.                    *)
(***************************************************************************)
eConsole == 0
eMultimedia == 1
eCommunications == 2
ERole == {eConsole, eMultimedia, eCommunications}

PrefixLen == 17
SuffixLen == 39

\* def get_stripped_id(long_id): return long_id and long_id[17:-39]
get_stripped_id(long_id) ==
    IF ~Truthy(long_id) THEN long_id
    ELSE Some(PySlice(long_id.val, PrefixLen, 0 - SuffixLen))

\* A PROPVARIANT holding the listen target: VT_LPWSTR with a string, or VT_EMPTY.
VT_EMPTY == [vt |-> "VT_EMPTY", val |-> ""]
VT_LPWSTR(s) == [vt |-> "VT_LPWSTR", val |-> s]

\* set_listening_checkbox(property_store, value)
set_listening_checkbox(store, value) == [store EXCEPT !.checkbox = value]

\* set_listening_device(property_store, output_device_id)
set_listening_device(store, output_device_id) ==
    [store EXCEPT !.device =
        IF output_device_id # None THEN VT_LPWSTR(output_device_id.val)
        ELSE VT_EMPTY]

(***************************************************************************)
(* The devices of the machine.  An endpoint id as the device enumeration   *)
(* reports it is a 17 character prefix, the id the property store API      *)
(* takes, and a 39 character suffix.                                       *)
(***************************************************************************)
IdPrefix == "//?/SWD#MMDEVAPI#"
IdSuffix == "#{e6327cad-dcec-4949-ae8a-991e976a79d2}"
LongId(core) == IdPrefix \o core \o IdSuffix
DeviceLetters == <<"A", "B", "C", "D">>
RenderCore(k) == "{0.0.0.00000000}.{" \o DeviceLetters[k] \o "}"
RenderIds == {LongId(RenderCore(k)) : k \in 1..NumRender}
MicCore == "{0.0.1.00000000}.{M}"
MicId == LongId(MicCore)
\* What the persisted table holds for one role: "" (system default) or an id.
PersistedValues == {""} \union RenderIds
Pids == 1..MaxPid
NoPid == 0

Handlers == {"media_properties_changed", "playback_info_changed",
             "timeline_properties_changed"}

VARIABLES
    pc,                 \* main()'s position
    exc,                \* the exception in flight ("" when none)
    raisedAt,           \* the position at which exc was raised
    sessions,           \* pid of the music program's audio session (NoPid: none)
    endpoints,          \* OS: [pid -> [role -> persisted endpoint id]]
    store,              \* OS: the microphone's property store
    music_pid, speakers_id, mic_id,     \* main()'s locals
    current_device_id,  \* switch_output_device_for_process's local
    role,               \* set_device_for_process's loop variable
    stream,             \* the sd.InputStream: "unopened", "open", "closed"
    subscribed,         \* handlers registered on the media session
    buffers,            \* capture buffers delivered to update_visualizer_data
    pre,                \* history: the OS state when main() started
    acquired,           \* history: context managers whose __enter__ returned
    endBegun,           \* history: context managers whose code after yield began
    ends,               \* history: [manager -> times its code after yield completed]
    storeWritten,       \* history: the controller has written the store
    handlerRanLate      \* history: a handler was called after a revert began

\* The pure functions and the capture callback are exercised on their own:
\* each has one variable holding a call, its inputs and its result.
VARIABLES
    directory,          \* a call of get_device_id_from_name
    strip,              \* a call of get_stripped_id
    viz                 \* a call of update_visualizer_data

\* The now-playing tracker: main.py's module globals, the thread of main()
\* and the thread the media session delivers its events on.
VARIABLES
    CURRENT_SONG_TIME,  \* module global, seconds
    TOTAL_SONG_TIME,    \* module global, seconds
    timerArmed,         \* pygame.time.set_timer(timer, 1000) in force
    music_mgr,          \* module global: the adapter, or "None"
    snapshot,           \* title_entity, artist_entity, thumbnail_entity
    tpc,                \* each thread's position
    loc,                \* each thread's locals in the call it is in
    drawn,              \* what the draw_timeline under way has read
    tick,               \* what the tick under way has read
    \* history
    currentOf,          \* total of the timeline read CURRENT_SONG_TIME comes from
    configured,         \* music_mgr as the import left it
    fellBack,           \* some update has taken the KeyError branch
    paused              \* a Paused event's handler has returned, no event since

trackerGlobals == <<CURRENT_SONG_TIME, TOTAL_SONG_TIME, timerArmed, music_mgr, snapshot>>
trackerHist == <<currentOf, configured, fellBack, paused>>
trackerVars == <<trackerGlobals, tpc, loc, drawn, tick, trackerHist>>

osVars == <<endpoints, store>>
localVars == <<music_pid, speakers_id, mic_id, current_device_id, role>>
histVars == <<pre, acquired, endBegun, ends, storeWritten, handlerRanLate>>
mainVars == <<pc, exc, raisedAt, sessions, endpoints, store, music_pid, speakers_id,
              mic_id, current_device_id, role, stream, subscribed, buffers, pre,
              acquired, endBegun, ends, storeWritten, handlerRanLate>>
\* What main()'s own steps leave alone.
otherVars == <<directory, strip, viz, trackerVars>>
vars == <<mainVars, otherVars>>

Managers == {"listen", "switch"}

DefaultRow == [r \in ERole |-> ""]

\* main() about to run.
InitMain ==
    /\ pc = "get_music_process_pid"
    /\ exc = ""
    /\ raisedAt = ""
    /\ sessions \in Pids \union {NoPid}
    \* Any persisted assignment for the music program; other processes unset.
    /\ \E row \in [ERole -> PersistedValues] :
          endpoints = [p \in Pids |-> IF p = sessions THEN row ELSE DefaultRow]
    \* Any earlier listen setting: off or on, no target or render device 1.
    /\ store \in [checkbox : BOOLEAN, device : {VT_EMPTY, VT_LPWSTR(RenderCore(1))}]
    /\ music_pid = NoPid
    /\ speakers_id = None
    /\ mic_id = None
    /\ current_device_id = None
    /\ role = 0
    /\ stream = "unopened"
    /\ subscribed = {}
    /\ buffers = 0
    /\ pre = [endpoints |-> endpoints, store |-> store]
    /\ acquired = {}
    /\ endBegun = {}
    /\ ends = [m \in Managers |-> 0]
    /\ storeWritten = FALSE
    /\ handlerRanLate = FALSE

\* The start state the separately exercised functions are called in: no music
\* session, nothing persisted, listening off.
MainNotRunning ==
    /\ InitMain
    /\ sessions = NoPid
    /\ store = [checkbox |-> FALSE, device |-> VT_EMPTY]

\* main() at line 399, inside both context managers with its three handlers
\* subscribed: process 1 redirected to render device 1, listening on.
MainAtInitialUpdate ==
    /\ pc = "update_music_data"
    /\ exc = ""
    /\ raisedAt = ""
    /\ sessions = 1
    /\ music_pid = 1
    /\ speakers_id = Some(LongId(RenderCore(1)))
    /\ mic_id = Some(MicId)
    /\ current_device_id = None
    /\ role = eCommunications
    /\ endpoints = [p \in Pids |->
                       IF p = 1 THEN [r \in ERole |-> LongId(RenderCore(1))]
                       ELSE DefaultRow]
    /\ store = [checkbox |-> TRUE, device |-> VT_EMPTY]
    /\ stream = "unopened"
    /\ subscribed = Handlers
    /\ buffers = 0
    /\ pre = [endpoints |-> [p \in Pids |-> DefaultRow],
              store |-> [checkbox |-> FALSE, device |-> VT_EMPTY]]
    /\ acquired = Managers
    /\ endBegun = {}
    /\ ends = [m \in Managers |-> 0]
    /\ storeWritten = TRUE
    /\ handlerRanLate = FALSE

(***************************************************************************)
(* main.py, the now-playing tracker: values.                               *)
(***************************************************************************)
Threads == {"main", "callback"}
\* (position, end_time) pairs a session's timeline properties can hold.
Timelines == {t \in (0..MaxTime) \X (0..MaxTime) : t[1] <= t[2]}
PlaybackStatus == {"PLAYING", "PAUSED", "STOPPED"}
\* What `await music_mgr.get_current_song()` and the thumbnail decoding after
\* it can do: give a song, raise KeyError, raise anything else.
AdapterOutcomes == {"song", "KeyError", "error"}
NoAdapter == "None"
Unread == 0 - 1
AdapterSong == [title |-> "adapter title", artists |-> "adapter artists",
                thumbnail |-> "adapter thumbnail"]
SessionSong == [title |-> "session title", artists |-> "session artist",
                thumbnail |-> "backup_thumb_path"]
\* Lines 79-95: what the module shows before the first update.
ImportedSong == [title |-> "Adjudicate", artists |-> "Borealising",
                 thumbnail |-> "backup_thumb_path"]
NoLocals == [kind |-> "", reads |-> {}, writes |-> {}, source |-> "",
             outcome |-> "", afterFallback |-> FALSE, song |-> ImportedSong,
             current_timedelta |-> 0, total_timedelta |-> 0, playback_status |-> ""]
NothingDrawn == [current |-> Unread, of |-> Unread, total |-> Unread]
NoTick == [read |-> Unread, of |-> Unread]

\* The module as imported (lines 55-56, 96, 104, 113-120), main() not yet at
\* line 399 and no event delivered.
TrackerImported(mgr) ==
    /\ CURRENT_SONG_TIME = 0
    /\ TOTAL_SONG_TIME = 0
    /\ timerArmed = TRUE
    /\ music_mgr = mgr
    /\ snapshot = ImportedSong
    /\ drawn = NothingDrawn
    /\ tick = NoTick
    /\ currentOf = 0
    /\ configured = mgr
    /\ fellBack = FALSE
    /\ paused = FALSE
TrackerNotRunning ==
    /\ TrackerImported(NoAdapter)
    /\ tpc = [th \in Threads |-> "not_started"]
    /\ loc = [th \in Threads |-> NoLocals]

\* No call of the separately exercised functions is under way.
NoDirectoryCall == [render |-> <<>>, capture |-> <<>>, name |-> "",
                    result |-> None, done |-> FALSE]
NoStripCall == [long_id |-> None, result |-> None, done |-> FALSE]
NoVizCall == [indata |-> <<>>, frames |-> 0, xf |-> <<>>, denominator |-> 0,
              indices |-> <<>>, left_xf |-> <<>>, right_xf |-> <<>>,
              left_yf |-> <<>>, right_yf |-> <<>>,
              left_points |-> <<>>, right_points |-> <<>>, tips |-> <<>>,
              raised |-> "", propagated |-> FALSE, stream |-> "closed",
              surface |-> <<>>, done |-> FALSE]

Init ==
    /\ InitMain
    /\ directory = NoDirectoryCall
    /\ strip = NoStripCall
    /\ viz = NoVizCall
    /\ TrackerNotRunning

(***************************************************************************)
(* Exceptions.  Where an exception raised at a position goes next follows  *)
(* from the nesting of main()'s with statements (lines 389-391 and 403):   *)
(* the __exit__ of the innermost context manager whose __enter__ has       *)
(* returned, or out of main() when there is none.  An exception raised     *)
(* inside a generator's own code, before or after its yield, leaves that   *)
(* generator and goes to the enclosing context manager.                    *)
(***************************************************************************)
ExceptionHandler(position) ==
    CASE position \in {"get_music_process_pid", "get_device_id_from_name",
                       "listen_enter", "listen_set_checkbox", "listen_set_device"}
            -> "exited"
      [] position \in {"switch_enter", "switch_enter_set"}
            -> "listen_throw"
      [] position \in {"get_music_session", "add_media_properties_changed",
                       "add_playback_info_changed",
                       "add_timeline_properties_changed", "update_music_data",
                       "stream_enter"}
            -> "switch_throw"
      [] position \in {"loop", "pygame_quit"}
            -> "stream_exit"
      [] position \in {"switch_exit", "switch_exit_set"}
            -> "listen_throw"
      [] position \in {"listen_exit", "listen_exit_device"}
            -> "exited"

Raise(e) ==
    /\ exc' = e
    /\ raisedAt' = pc
    /\ pc' = ExceptionHandler(pc)

NoRaise == UNCHANGED <<exc, raisedAt>>

(***************************************************************************)
(* now_playing_handler.py                                                  *)
(***************************************************************************)
\* get_music_process_pid(name): the pid of the matching audio session, or None.
get_music_process_pid == sessions

(***************************************************************************)
(* main(), lines 383-385: the music program's pid.                         *)
(***************************************************************************)
MainGetMusicPid ==
    /\ pc = "get_music_process_pid"
    /\ music_pid' = get_music_process_pid
    /\ IF get_music_process_pid = NoPid
       THEN Raise("Could not find music PID")
       ELSE pc' = "get_device_id_from_name" /\ NoRaise
    /\ UNCHANGED <<otherVars, sessions, osVars, speakers_id, mic_id, current_device_id, role,
                   stream, subscribed, buffers, histVars>>

(***************************************************************************)
(* main(), lines 387-388: both device names are resolved; each lookup      *)
(* gives the id of an enumerated device or None.                           *)
(***************************************************************************)
MainResolveDevices ==
    /\ pc = "get_device_id_from_name"
    /\ speakers_id' \in {Some(id) : id \in RenderIds} \union {None}
    /\ mic_id' \in {Some(MicId), None}
    /\ pc' = "listen_enter"
    /\ NoRaise
    /\ UNCHANGED <<otherVars, sessions, osVars, music_pid, current_device_id, role,
                   stream, subscribed, buffers, histVars>>

(***************************************************************************)
(* listen_to_input_device(mic_id, None).__enter__, lines 230-240.          *)
(***************************************************************************)
\* main() passes None as the output device.
listen_output_device == None

\* get_device_store(device_id): GetDevice finds the device whose id it is given.
DeviceKnown(device_id) == device_id.some /\ device_id.val = MicCore

\* Lines 230-235: the ids are stripped and the store is opened for writing;
\* an unknown device, or a store that cannot be opened for writing, raises.
ListenOpenStore ==
    /\ pc = "listen_enter"
    /\ \E writable \in BOOLEAN :
          IF DeviceKnown(get_stripped_id(mic_id)) /\ writable
          THEN pc' = "listen_set_checkbox" /\ NoRaise
          ELSE Raise("Cannot write to device store")
    /\ UNCHANGED <<otherVars, sessions, osVars, localVars, stream, subscribed, buffers, histVars>>

\* Line 237.
ListenSetCheckbox ==
    /\ pc = "listen_set_checkbox"
    /\ store' = set_listening_checkbox(store, TRUE)
    /\ storeWritten' = TRUE
    /\ pc' = "listen_set_device"
    /\ NoRaise
    /\ UNCHANGED <<otherVars, sessions, endpoints, localVars, stream, subscribed, buffers,
                   pre, acquired, endBegun, ends, handlerRanLate>>

\* Lines 238-240: the target is written and the generator yields.
ListenSetDevice ==
    /\ pc = "listen_set_device"
    /\ store' = set_listening_device(store, get_stripped_id(listen_output_device))
    /\ acquired' = acquired \union {"listen"}
    /\ pc' = "switch_enter"
    /\ NoRaise
    /\ UNCHANGED <<otherVars, sessions, endpoints, localVars, stream, subscribed, buffers,
                   pre, endBegun, ends, storeWritten, handlerRanLate>>

(***************************************************************************)
(* AudioSessionHandler, lines 168-209.                                     *)
(***************************************************************************)
\* get_device_for_process: None for the empty string (the default setting).
get_device_for_process(process_id, r) ==
    IF Len(endpoints[process_id][r]) = 0 THEN None
    ELSE Some(endpoints[process_id][r])

\* Lines 186-197: the HSTRING handed to the OS; None (the empty string) resets.
device_id_hstr(device_id) == IF Truthy(device_id) THEN device_id.val ELSE ""

\* The OS call of lines 202-204 when it succeeds.
set_persisted_default_audio_endpoint(process_id, r, hstr) ==
    [endpoints EXCEPT ![process_id][r] = hstr]

\* The loop as it would be were the last role left out: range(2).
RoleRangeWithoutCommunications == {eConsole, eMultimedia}

\* Lines 199-201: for role in range(3).
RoleRange == {eConsole, eMultimedia, eCommunications}

\* One iteration of the loop of lines 199-206 for the current role: the OS
\* call succeeds and the loop goes on (or ends, at donePc), or it reports
\* failure, nothing is written and the exception leaves the loop at once.
\* (A failure to create the HSTRING, line 194, raises before the first
\* write, as a failure of the first role's write does.)
set_device_for_process(device_id, donePc) ==
    \E hr_ok \in BOOLEAN :
        IF hr_ok
        THEN /\ endpoints' = set_persisted_default_audio_endpoint(
                                music_pid, role, device_id_hstr(device_id))
             /\ IF role + 1 \in RoleRange
                THEN role' = role + 1 /\ pc' = pc
                ELSE role' = role /\ pc' = donePc
             /\ NoRaise
        ELSE /\ Raise("Could not set device")
             /\ UNCHANGED <<endpoints, role>>

(***************************************************************************)
(* switch_output_device_for_process(music_pid, speakers_id).__enter__,     *)
(* lines 217-223.  An exception here leaves the with statement through     *)
(* listen_to_input_device's __exit__.                                      *)
(***************************************************************************)
\* Lines 217-220: only the multimedia role's endpoint is read and kept.
\* The AudioSessionHandler constructor and the read both raise on failure.
SwitchEnterGet ==
    /\ pc = "switch_enter"
    /\ \E hr_ok \in BOOLEAN :
          IF hr_ok
          THEN /\ current_device_id' = get_device_for_process(music_pid, eMultimedia)
               /\ role' = eConsole
               /\ pc' = "switch_enter_set"
               /\ NoRaise
          ELSE /\ Raise("Could not get device id")
               /\ UNCHANGED <<current_device_id, role>>
    /\ UNCHANGED <<otherVars, sessions, osVars, music_pid, speakers_id, mic_id, stream,
                   subscribed, buffers, histVars>>

\* Lines 221-223: the new endpoint is written role by role, then the yield.
SwitchEnterSet ==
    /\ pc = "switch_enter_set"
    /\ set_device_for_process(speakers_id, "get_music_session")
    /\ acquired' = IF pc' = "get_music_session" THEN acquired \union {"switch"}
                   ELSE acquired
    /\ UNCHANGED <<otherVars, sessions, store, music_pid, speakers_id, mic_id,
                   current_device_id, stream, subscribed, buffers, pre, endBegun,
                   ends, storeWritten, handlerRanLate>>

(***************************************************************************)
(* The body of the with statement, main() lines 392-433.  An exception     *)
(* here leaves through the __exit__ of the stream (when it is open), then  *)
(* of switch_output_device_for_process, then of listen_to_input_device.    *)
(***************************************************************************)
\* Line 392, get_music_session: raises when no session matches.
MainGetMusicSession ==
    /\ pc = "get_music_session"
    /\ \E found \in BOOLEAN :
          IF found THEN pc' = "add_media_properties_changed" /\ NoRaise
          ELSE Raise("No music session found")
    /\ UNCHANGED <<otherVars, sessions, osVars, localVars, stream, subscribed, buffers, histVars>>

Subscribe(h, here, next) ==
    /\ pc = here
    /\ subscribed' = subscribed \union {h}
    /\ pc' = next

\* Lines 396-398.  No handler is removed anywhere in main().
MainAddHandlers ==
    /\ \/ Subscribe("media_properties_changed",
                    "add_media_properties_changed", "add_playback_info_changed")
       \/ Subscribe("playback_info_changed",
                    "add_playback_info_changed", "add_timeline_properties_changed")
       \/ Subscribe("timeline_properties_changed",
                    "add_timeline_properties_changed", "update_music_data")
    /\ NoRaise
    /\ UNCHANGED <<otherVars, sessions, osVars, localVars, stream, buffers, histVars>>

\* Lines 399-400: the first update_music_data and draw_timeline, whose
\* division by the total duration raises when that is zero.
MainInitialUpdate ==
    /\ pc = "update_music_data"
    /\ \E ok \in BOOLEAN :
          IF ok THEN pc' = "stream_enter" /\ NoRaise
          ELSE Raise("ZeroDivisionError")
    /\ UNCHANGED <<otherVars, sessions, osVars, localVars, stream, subscribed, buffers, histVars>>

\* Lines 403-407: sd.InputStream(...).__enter__ opens and starts the stream.
MainStreamEnter ==
    /\ pc = "stream_enter"
    /\ \E ok \in BOOLEAN :
          IF ok THEN stream' = "open" /\ pc' = "loop" /\ NoRaise
          ELSE stream' = stream /\ Raise("PortAudioError")
    /\ UNCHANGED <<otherVars, sessions, osVars, localVars, subscribed, buffers, histVars>>

\* Lines 409-431, one pass of the loop: QUIT ends it, a timer event redraws
\* the timeline (which may raise as above), anything else is drawn over.
MainLoop ==
    /\ pc = "loop"
    /\ \E event \in {"QUIT", "timer", "other"} :
          CASE event = "QUIT" -> pc' = "pygame_quit" /\ NoRaise
            [] event = "timer" ->
                 \E ok \in BOOLEAN :
                    IF ok THEN pc' = pc /\ NoRaise
                    ELSE Raise("ZeroDivisionError")
            [] OTHER -> pc' = pc /\ NoRaise
    /\ UNCHANGED <<otherVars, sessions, osVars, localVars, stream, subscribed, buffers, histVars>>

\* The user interrupts the program: KeyboardInterrupt is raised in the main
\* thread wherever it is, unless an exception is already on its way out.
Interrupt ==
    /\ exc = ""
    /\ pc \notin {"exited", "stream_exit"}
    /\ Raise("KeyboardInterrupt")
    /\ UNCHANGED <<otherVars, sessions, osVars, localVars, stream, subscribed, buffers, histVars>>

\* Line 433.
MainPygameQuit ==
    /\ pc = "pygame_quit"
    /\ pc' = "stream_exit"
    /\ NoRaise
    /\ UNCHANGED <<otherVars, sessions, osVars, localVars, stream, subscribed, buffers, histVars>>

\* The stream as it would be were it started without a with statement:
\* nothing closes it when the block is left.
InputStreamLeftOpen ==
    /\ pc = "stream_exit"
    /\ stream' = stream
    /\ pc' = IF exc = "" THEN "switch_exit" ELSE "switch_throw"
    /\ NoRaise
    /\ UNCHANGED <<otherVars, sessions, osVars, localVars, subscribed, buffers, histVars>>

\* sd.InputStream.__exit__ (end of the with of line 403): the stream is
\* stopped and closed, with or without an exception in flight.
InputStreamExit ==
    /\ pc = "stream_exit"
    /\ stream' = "closed"
    /\ pc' = IF exc = "" THEN "switch_exit" ELSE "switch_throw"
    /\ NoRaise
    /\ UNCHANGED <<otherVars, sessions, osVars, localVars, subscribed, buffers, histVars>>

(***************************************************************************)
(* The capture thread: update_visualizer_data is called with a buffer      *)
(* while the stream is open.                                               *)
(***************************************************************************)
CaptureCallback ==
    /\ stream = "open"
    /\ buffers' = Min(buffers + 1, MaxBuffers)
    /\ UNCHANGED <<otherVars, pc, exc, raisedAt, sessions, osVars, localVars, stream,
                   subscribed, histVars>>

(***************************************************************************)
(* The notification thread: a registered handler is called, as long as the *)
(* process lives.  Its effect on the displayed track is outside this       *)
(* specification; what is kept is whether it ran after a revert began.     *)
(***************************************************************************)
HandlerFires ==
    /\ pc # "exited"
    /\ \E h \in subscribed :
          handlerRanLate' = (handlerRanLate \/ endBegun # {})
    /\ UNCHANGED <<otherVars, pc, exc, raisedAt, sessions, osVars, localVars, stream,
                   subscribed, buffers, pre, acquired, endBegun, ends, storeWritten>>

(***************************************************************************)
(* switch_output_device_for_process.__exit__.                              *)
(***************************************************************************)
\* No exception: the generator resumes after its yield, line 224.
SwitchExitResume ==
    /\ pc = "switch_exit"
    /\ endBegun' = endBegun \union {"switch"}
    /\ role' = eConsole
    /\ pc' = "switch_exit_set"
    /\ NoRaise
    /\ UNCHANGED <<otherVars, sessions, osVars, music_pid, speakers_id, mic_id,
                   current_device_id, stream, subscribed, buffers, pre, acquired,
                   ends, storeWritten, handlerRanLate>>

\* Lines 224-225: the kept endpoint is written back role by role.  An
\* exception here goes on to listen_to_input_device's __exit__.
SwitchExitSet ==
    /\ pc = "switch_exit_set"
    /\ set_device_for_process(current_device_id, "listen_exit")
    /\ ends' = IF pc' = "listen_exit" THEN [ends EXCEPT !["switch"] = @ + 1]
               ELSE ends
    /\ UNCHANGED <<otherVars, sessions, store, music_pid, speakers_id, mic_id,
                   current_device_id, stream, subscribed, buffers, pre, acquired,
                   endBegun, storeWritten, handlerRanLate>>

\* An exception in flight: it is thrown into the generator at its yield
\* (line 223), which no try statement encloses, so that it leaves the
\* generator at once and lines 224-225 are not executed.
SwitchExitThrow ==
    /\ pc = "switch_throw"
    /\ pc' = "listen_throw"
    /\ NoRaise
    /\ UNCHANGED <<otherVars, sessions, osVars, localVars, stream, subscribed, buffers, histVars>>

(***************************************************************************)
(* listen_to_input_device.__exit__.                                        *)
(***************************************************************************)
\* No exception: the generator resumes after its yield; line 241.
ListenExitCheckbox ==
    /\ pc = "listen_exit"
    /\ endBegun' = endBegun \union {"listen"}
    /\ store' = set_listening_checkbox(store, FALSE)
    /\ pc' = "listen_exit_device"
    /\ NoRaise
    /\ UNCHANGED <<otherVars, sessions, endpoints, localVars, stream, subscribed, buffers,
                   pre, acquired, ends, storeWritten, handlerRanLate>>

\* Lines 242-243; main() then returns and the process ends.
ListenExitDevice ==
    /\ pc = "listen_exit_device"
    /\ store' = set_listening_device(store, None)
    /\ ends' = [ends EXCEPT !["listen"] = @ + 1]
    /\ pc' = "exited"
    /\ NoRaise
    /\ UNCHANGED <<otherVars, sessions, endpoints, localVars, stream, subscribed, buffers,
                   pre, acquired, endBegun, storeWritten, handlerRanLate>>

\* An exception in flight: thrown into the generator at its yield (line
\* 240); lines 241-243 are not executed and the exception leaves main().
ListenExitThrow ==
    /\ pc = "listen_throw"
    /\ pc' = "exited"
    /\ NoRaise
    /\ UNCHANGED <<otherVars, sessions, osVars, localVars, stream, subscribed, buffers, histVars>>

Next ==
    \/ MainGetMusicPid
    \/ MainResolveDevices
    \/ ListenOpenStore
    \/ ListenSetCheckbox
    \/ ListenSetDevice
    \/ SwitchEnterGet
    \/ SwitchEnterSet
    \/ MainGetMusicSession
    \/ MainAddHandlers
    \/ MainInitialUpdate
    \/ MainStreamEnter
    \/ MainLoop
    \/ Interrupt
    \/ MainPygameQuit
    \/ InputStreamExit
    \/ CaptureCallback
    \/ HandlerFires
    \/ SwitchExitResume
    \/ SwitchExitSet
    \/ SwitchExitThrow
    \/ ListenExitCheckbox
    \/ ListenExitDevice
    \/ ListenExitThrow

Spec == Init /\ [][Next]_vars

(***************************************************************************)
(* Properties.                                                             *)
(***************************************************************************)
\* The persisted endpoints of the music program equal those main() found.
EndpointsAsBefore ==
    \A r \in ERole : endpoints[music_pid][r] = pre.endpoints[music_pid][r]

\* The listen checkbox is on while no target device is set.
EnabledWithoutTarget ==
    store.checkbox /\ (store.device.vt = "VT_EMPTY" \/ Len(store.device.val) = 0)

\* C1: when the program has exited, by whatever path, the code after the
\* yield of every context manager that was entered has run exactly once.
C1_EndRunsOnceOnEveryExit ==
    pc = "exited" => \A m \in acquired : ends[m] = 1

\* C2: once switch_output_device_for_process has been entered and left,
\* every role's persisted endpoint is the one it had before.
C2_RedirectionRoundTrip ==
    ends["switch"] = 1 => EndpointsAsBefore

\* C3: from the yield of switch_output_device_for_process, entered with a
\* non-empty endpoint id, until its code after the yield begins, all three
\* roles of the music program hold that id.
C3_AllRolesRedirected ==
    ("switch" \in acquired /\ "switch" \notin endBegun /\ Truthy(speakers_id))
        => \A r \in ERole : endpoints[music_pid][r] = speakers_id.val

C3_Witness ==
    /\ pc = "loop"
    /\ buffers > 0
    /\ Truthy(speakers_id)
    /\ \A r \in ERole : endpoints[music_pid][r] = speakers_id.val
    /\ \A r \in ERole : pre.endpoints[music_pid][r] # speakers_id.val

\* C4: when a write of set_device_for_process fails while the redirection
\* is being set up, the error reaches the caller with every role holding
\* the endpoint it had before.
C4_PartialFailureRolledBack ==
    (exc = "Could not set device" /\ raisedAt = "switch_enter_set")
        => EndpointsAsBefore

\* C5: a start that fails after the listen setting was enabled (entering
\* switch_output_device_for_process fails, or no media session is found)
\* ends with the property store and the persisted endpoints as before.
C5_FailedStartupLeavesStateUnaltered ==
    (/\ pc = "exited"
     /\ "listen" \in acquired
     /\ exc \in {"Could not get device id", "Could not set device",
                 "No music session found"}
     /\ raisedAt \in {"switch_enter", "switch_enter_set", "get_music_session"})
        => store = pre.store /\ endpoints = pre.endpoints

\* C6: when writing the endpoint back fails on the way out, the code after
\* the yield of listen_to_input_device still runs.
C6_ListenRevertRunsAfterRestoreFails ==
    (pc = "exited" /\ exc = "Could not set device" /\ raisedAt = "switch_exit_set")
        => ends["listen"] = 1

\* C7: once listen_to_input_device has been entered and left, the checkbox
\* and the target device are what they were before.
C7_ListenRoundTrip ==
    ends["listen"] = 1 => store = pre.store

\* C8: in no state of the property store that the controller has written
\* is the checkbox on while the target device is absent or empty.
C8_NeverEnabledWithoutTarget ==
    storeWritten => ~EnabledWithoutTarget

\* C9: the capture stream is open, and buffers are delivered, only after
\* both context managers were entered; the code after either yield begins
\* only when the stream has been closed.
C9_BeginBeforeCaptureEndAfter ==
    /\ (stream = "open" \/ buffers > 0) => acquired = Managers
    /\ endBegun # {} => stream = "closed"

C9_Witness ==
    /\ pc = "exited"
    /\ buffers > 0
    /\ stream = "closed"
    /\ \A m \in Managers : ends[m] = 1

\* C10: when the route controller begins to revert, the capture stream is
\* closed and no media session handler is registered any more, and no
\* handler runs after that.
C10_ShutdownOrder ==
    /\ endBegun # {} => (stream = "closed" /\ subscribed = {})
    /\ ~handlerRanLate

\* C11: when either device name resolved to no endpoint, the run aborts at
\* startup with no OS audio state written: the property store is untouched
\* and every persisted endpoint is as before.
C11_UnresolvedDeviceWritesNothing ==
    (/\ pc \notin {"get_music_process_pid", "get_device_id_from_name"}
     /\ music_pid # NoPid
     /\ (speakers_id = None \/ mic_id = None))
        => (~storeWritten /\ store = pre.store /\ endpoints = pre.endpoints)

(***************************************************************************)
(* get_stripped_id on its own: one call on any optional string cut out of  *)
(* a device id, the whole id and the empty string included.                *)
(***************************************************************************)
StripSamples == RenderIds \union {MicId}
StripInputs ==
    {None} \union
    {Some(PySlice(id, a, b)) : id \in StripSamples, a \in 0..Len(MicId), b \in 0..Len(MicId)}

InitStrip ==
    /\ MainNotRunning
    /\ directory = NoDirectoryCall
    /\ viz = NoVizCall
    /\ TrackerNotRunning
    /\ \E long_id \in StripInputs :
           strip = [long_id |-> long_id, result |-> None, done |-> FALSE]

StripCall ==
    /\ ~strip.done
    /\ strip' = [strip EXCEPT !.result = get_stripped_id(strip.long_id),
                              !.done = TRUE]
    /\ UNCHANGED <<mainVars, directory, viz, trackerVars>>

NextStrip == StripCall
SpecStrip == InitStrip /\ [][NextStrip]_vars

\* C19: a string too short to hold the 17-character prefix and the
\* 39-character suffix comes back unchanged, and a longer one comes back with
\* exactly that prefix and that suffix removed.
C19_StripTotal ==
    (strip.done /\ strip.long_id.some) =>
        LET s == strip.long_id.val
        IN  IF Len(s) < PrefixLen + SuffixLen
            THEN strip.result = Some(s)
            ELSE strip.result = Some(PySlice(s, PrefixLen, Len(s) - SuffixLen))

(***************************************************************************)
(* now_playing_handler.py, get_device_id_from_name on its own: one lookup  *)
(* of a name among the enumerated render and capture devices.              *)
(***************************************************************************)
DeviceNames == {"CABLE Input", "CABLE Output", "Speakers"}
LookupNames == {"CABLE", "cable", "Output", "Mic"}
CaptureCore(k) == "{0.0.1.00000000}.{" \o DeviceLetters[k] \o "}"

\* Python's `needle in hay` on strings; "" is in every string.
StrIn(needle, hay) ==
    \E i \in 0..(Len(hay) - Len(needle)) : SubSeq(hay, i + 1, i + Len(needle)) = needle

\* find_all_async_device_class(device_class): the k-th enumerated device has
\* the k-th id of its class and one of the names.
EnumeratedNames == UNION {[1..n -> DeviceNames] : n \in 0..MaxDevices}
Device(device_class, names, k) ==
    [name |-> names[k],
     id |-> IF device_class = "AUDIO_RENDER" THEN LongId(RenderCore(k))
            ELSE LongId(CaptureCore(k))]
find_all_async_device_class(device_class, names) ==
    [k \in 1..Len(names) |-> Device(device_class, names, k)]

\* next((d for d in devices if name in d.name), None), as the index of the
\* device found, 0 for None.
RECURSIVE NextMatch(_, _, _)
NextMatch(devices, name, k) ==
    IF k > Len(devices) THEN 0
    ELSE IF StrIn(name, devices[k].name) THEN k
    ELSE NextMatch(devices, name, k + 1)

\* The lookup with the two device classes searched in the other order.
get_device_id_capture_first(render, capture, name) ==
    LET c == NextMatch(capture, name, 1)
        r == NextMatch(render, name, 1)
    IN  IF c # 0 THEN Some(capture[c].id)
        ELSE IF r # 0 THEN Some(render[r].id)
        ELSE None

\* Lines 22-32: render devices first, capture devices when that gave None.
get_device_id_from_name(render, capture, name) ==
    LET r == NextMatch(render, name, 1)
        c == NextMatch(capture, name, 1)
    IN  IF r # 0 THEN Some(render[r].id)
        ELSE IF c # 0 THEN Some(capture[c].id)
        ELSE None

InitDirectory ==
    /\ MainNotRunning
    /\ strip = NoStripCall
    /\ viz = NoVizCall
    /\ TrackerNotRunning
    /\ \E rn \in EnumeratedNames, cn \in EnumeratedNames, name \in LookupNames :
           directory = [render |-> find_all_async_device_class("AUDIO_RENDER", rn),
                        capture |-> find_all_async_device_class("AUDIO_CAPTURE", cn),
                        name |-> name, result |-> None, done |-> FALSE]

DirectoryLookup ==
    /\ ~directory.done
    /\ directory' = [directory EXCEPT
           !.result = get_device_id_from_name(directory.render, directory.capture,
                                              directory.name),
           !.done = TRUE]
    /\ UNCHANGED <<mainVars, strip, viz, trackerVars>>

NextDirectory == DirectoryLookup
SpecDirectory == InitDirectory /\ [][NextDirectory]_vars

\* The positions of the devices whose name contains the looked-up name.
Matching(devices) ==
    {k \in 1..Len(devices) : StrIn(directory.name, devices[k].name)}
Lowest(S) == CHOOSE k \in S : \A j \in S : k <= j

\* C17: the lookup returns the id of the first render device, in enumeration
\* order, whose name contains the name looked up; only when no render device
\* matches, the id of the first matching capture device; and None when
\* nothing matches.
C17_RenderFirstThenCapture ==
    directory.done =>
        LET R == Matching(directory.render)
            C == Matching(directory.capture)
        IN  /\ R # {} => directory.result = Some(directory.render[Lowest(R)].id)
            /\ (R = {} /\ C # {}) =>
                   directory.result = Some(directory.capture[Lowest(C)].id)
            /\ (R = {} /\ C = {}) => directory.result = None

\* Two render devices and a capture device match, and the first render
\* device's id came back.
C17_Witness ==
    /\ directory.done
    /\ Cardinality(Matching(directory.render)) >= 2
    /\ Matching(directory.capture) # {}
    /\ directory.result = Some(directory.render[1].id)

LowerCase == "abcdefghijklmnopqrstuvwxyz"
UpperCase == "ABCDEFGHIJKLMNOPQRSTUVWXYZ"
LowerChar(c) ==
    IF \E i \in 1..Len(UpperCase) : SubSeq(UpperCase, i, i) = c
    THEN LET i == CHOOSE j \in 1..Len(UpperCase) : SubSeq(UpperCase, j, j) = c
         IN  SubSeq(LowerCase, i, i)
    ELSE c
RECURSIVE Lower(_)
Lower(s) == IF Len(s) = 0 THEN "" ELSE LowerChar(SubSeq(s, 1, 1)) \o Lower(SubSeq(s, 2, Len(s)))

\* C18: a device matches whenever its lower-cased name contains the
\* lower-cased name looked up, whatever the letter case of either.
C18_CaseInsensitiveMatch ==
    directory.done =>
        \A devices \in {directory.render, directory.capture} :
            \A k \in 1..Len(devices) :
                StrIn(Lower(directory.name), Lower(devices[k].name))
                    => k \in Matching(devices)

(***************************************************************************)
(* main.py, update_visualizer_data on its own: the capture callback on one *)
(* delivered buffer.  Frequencies are kept exact as integer numerators     *)
(* over the common denominator `frames`.                                   *)
(***************************************************************************)
INPUT_SAMPLERATE == 44100
SCREEN_WIDTH == 1920
chunk_size == 3
Samples == {0, 1}
\* Frame counts whose DFT has rational twiddle cosines, so that squared
\* magnitudes stay integers.
FrameCounts == {n \in {1, 2, 3, 4, 6} : n <= MaxFrames}
\* indata of shape (frames, channels).  The stream is opened with two
\* channels; a buffer of one column is a malformed one.
Buffers == UNION {[1..n -> [1..c -> Samples]] : n \in FrameCounts, c \in {1, 2}}

\* An array with every element computed (once), as numpy holds it.
Array(a) == SubSeq(a, 1, Len(a))

\* indata[:, c]; IndexError when the buffer has no such column.
HasColumn(indata, c) == \A i \in 1..Len(indata) : c + 1 <= Len(indata[i])
Column(indata, c) == [i \in 1..Len(indata) |-> indata[i][c + 1]]

\* numpy's fftfreq(n, 1 / INPUT_SAMPLERATE): bins 0 .. (n-1)//2, then
\* -(n//2) .. -1, each times INPUT_SAMPLERATE / n.
fftfreq(n) ==
    [i \in 1..n |->
        (IF i - 1 <= (n - 1) \div 2 THEN i - 1 ELSE i - 1 - n) * INPUT_SAMPLERATE]

RECURSIVE SeqMin(_)
SeqMin(s) == IF Len(s) = 1 THEN s[1] ELSE Min(s[1], SeqMin(Tail(s)))
RECURSIVE SeqMax(_)
SeqMax(s) == IF Len(s) = 1 THEN s[1] ELSE Max(s[1], SeqMax(Tail(s)))
RECURSIVE SeqSum(_)
SeqSum(s) == IF Len(s) = 0 THEN 0 ELSE s[1] + SeqSum(Tail(s))

\* Line 137: xf - np.min(xf).
ShiftedAxis(frames) ==
    LET xf == Array(fftfreq(frames))
        lowest == SeqMin(xf)
    IN  [i \in 1..frames |-> xf[i] - lowest]

\* A non-negative float kept exact as the fraction num / den in lowest
\* terms; 0 / 0 is numpy's nan, which every operation hands on.
RECURSIVE GCD(_, _)
GCD(a, b) == IF b = 0 THEN a ELSE GCD(b, a % b)
nan == [num |-> 0, den |-> 0]
Rat(num, den) ==
    IF den = 0 THEN nan
    ELSE [num |-> num \div GCD(num, den), den |-> den \div GCD(num, den)]
RatAdd(a, b) ==
    IF a = nan \/ b = nan THEN nan
    ELSE Rat(a.num * b.den + b.num * a.den, a.den * b.den)
RatLess(a, b) == a # nan /\ b # nan /\ a.num * b.den < b.num * a.den
RECURSIVE RatSum(_)
RatSum(s) == IF Len(s) = 0 THEN Rat(0, 1) ELSE RatAdd(s[1], RatSum(Tail(s)))

\* Line 138: (xf / np.max(xf)) * (SCREEN_WIDTH / 2).
NormalisedAxis(xf) ==
    LET highest == SeqMax(xf)
    IN  [i \in 1..Len(xf) |-> Rat(xf[i] * SCREEN_WIDTH, highest * 2)]

\* np.argsort: the index of the i-th smallest.  The positions of a buffer
\* are all different.
argsort(a) ==
    [i \in 1..Len(a) |->
        CHOOSE j \in 1..Len(a) :
            Cardinality({m \in 1..Len(a) : RatLess(a[m], a[j])}) = i - 1]

\* a[indices]
Take(a, indices) == [i \in 1..Len(indices) |-> a[indices[i]]]
\* The magnitudes left in bin order while the axis is sorted.
MagnitudesInBinOrder(yf, indices) == yf
\* Lines 142-143: np.abs(fft(channel)).astype(float)[indices].
SortedMagnitudes(yf, indices) == Take(yf, indices)

\* 2 cos(2 pi j / n) for the frame counts used.
TwoCos(n, j) ==
    CASE n = 1 -> 2
      [] n = 2 -> <<2, 0 - 2>>[(j % 2) + 1]
      [] n = 3 -> <<2, 0 - 1, 0 - 1>>[(j % 3) + 1]
      [] n = 4 -> <<2, 0, 0 - 2, 0>>[(j % 4) + 1]
      [] n = 6 -> <<2, 1, 0 - 1, 0 - 2, 0 - 1, 1>>[(j % 6) + 1]

\* np.abs(fft(x)), each magnitude kept as its square:
\* |X_k|^2 = sum_n x_n^2 + sum_{n<m} x_n x_m 2 cos(2 pi k (m - n) / N).
AbsFft(x) ==
    LET N == Len(x)
    IN  [b \in 1..N |->
            SeqSum([n \in 1..N |-> x[n] * x[n]])
            + SeqSum([n \in 1..N |->
                  SeqSum([m \in 1..N |->
                      IF n < m THEN x[n] * x[m] * TwoCos(N, (b - 1) * (m - n)) ELSE 0])])]

\* Lines 123-128, the slice arr[i * chunk_size : (i + 1) * chunk_size].
Chunk(arr, i, size) ==
    SubSeq(arr, i * size + 1, Min((i + 1) * size, Len(arr)))
\* np.mean of a chunk of positions and of a chunk of magnitudes (the sum of
\* the roots of `squares` over `den`).
MeanPosition(c) ==
    LET total == RatSum(c) IN Rat(total.num, total.den * Len(c))
MeanMagnitudeOverSize(c) == [squares |-> c, den |-> chunk_size]
MeanMagnitude(c) == [squares |-> c, den |-> Len(c)]

avg_chunk_positions(arr, size) ==
    [i \in 1..((Len(arr) + size - 1) \div size) |-> MeanPosition(Chunk(arr, i - 1, size))]
avg_chunk_magnitudes(arr, size) ==
    [i \in 1..((Len(arr) + size - 1) \div size) |-> MeanMagnitude(Chunk(arr, i - 1, size))]

\* Line 141: SCREEN_WIDTH - left_xf.
Mirror(a) == [i \in 1..Len(a) |-> Rat(SCREEN_WIDTH * a[i].den - a[i].num, a[i].den)]

\* A bar from (x, SCREEN_HEIGHT / 2 - yf * tenths / 10) to
\* (x, SCREEN_HEIGHT / 2 + yf * tenths / 10): lines 156-203.
Bar(x, yf, tenths) == [x |-> x, yf |-> yf, tenths |-> tenths]

\* What is on visualizer_surface: nothing but the background after line 214,
\* then the lines of 217-221.
LastGoodFrame == <<"background", "lines of the buffer before">>

InitVisualizer ==
    /\ MainNotRunning
    /\ directory = NoDirectoryCall
    /\ strip = NoStripCall
    /\ TrackerNotRunning
    /\ \E indata \in Buffers :
           viz = [NoVizCall EXCEPT !.indata = indata, !.frames = Len(indata),
                                   !.stream = "active", !.surface = LastGoodFrame]

\* Lines 214-216 with line 133 raising IndexError: nothing in
\* update_visualizer_data catches it, so it leaves the callback after the
\* surface was wiped, and the stream is aborted.
UpdateVisualizerDataRaises ==
    viz' = [viz EXCEPT !.raised = "IndexError", !.propagated = TRUE,
                       !.stream = "aborted", !.surface = <<"background">>,
                       !.done = TRUE]

\* Lines 214-221 with generate_waveform_points returning; each array is
\* computed once, in the order of the assignments.
UpdateVisualizerDataDraws ==
    \E left_channel \in {Array(Column(viz.indata, 0))},
       right_channel \in {Array(Column(viz.indata, 1))},
       xf \in {Array(ShiftedAxis(viz.frames))} :
    \E left_xf_ \in {Array(NormalisedAxis(xf))} :
    \E indices \in {Array(argsort(left_xf_))} :
    \E left_xf \in {Array(Take(left_xf_, indices))} :
    \E right_xf \in {Array(Mirror(left_xf))},
       left_yf \in {Array(SortedMagnitudes(Array(AbsFft(left_channel)), indices))},
       right_yf \in {Array(SortedMagnitudes(Array(AbsFft(right_channel)), indices))} :
    \E chunked_left_xf \in {Array(avg_chunk_positions(left_xf, chunk_size))},
       chunked_right_xf \in {Array(avg_chunk_positions(right_xf, chunk_size))},
       chunked_left_yf \in {Array(avg_chunk_magnitudes(left_yf, chunk_size))},
       chunked_right_yf \in {Array(avg_chunk_magnitudes(right_yf, chunk_size))} :
    \E left_points \in {Array([f \in 1..Len(chunked_left_xf) |->
                           Bar(chunked_left_xf[f], chunked_left_yf[f], 18)])},
       right_points \in {Array([f \in 1..Len(chunked_left_xf) |->
                           Bar(chunked_right_xf[f], chunked_right_yf[f], 18)])},
       tips \in {Array([t \in 1..(2 * Len(chunked_left_xf)) |->
                    IF t % 2 = 1
                    THEN Bar(chunked_left_xf[(t + 1) \div 2],
                             chunked_left_yf[(t + 1) \div 2], 20)
                    ELSE Bar(chunked_right_xf[t \div 2], chunked_right_yf[t \div 2], 20)])} :
        viz' = [viz EXCEPT !.xf = xf, !.denominator = SeqMax(xf),
                           !.indices = indices,
                           !.left_xf = left_xf, !.right_xf = right_xf,
                           !.left_yf = left_yf, !.right_yf = right_yf,
                           !.left_points = left_points, !.right_points = right_points,
                           !.tips = tips,
                           !.surface = <<"background", "lines of this buffer">>,
                           !.done = TRUE]

\* update_visualizer_data, lines 207-221, on one delivered buffer.
UpdateVisualizerData ==
    /\ ~viz.done
    /\ viz.stream = "active"
    /\ IF HasColumn(viz.indata, 1)
       THEN UpdateVisualizerDataDraws
       ELSE UpdateVisualizerDataRaises
    /\ UNCHANGED <<mainVars, directory, strip, trackerVars>>

NextVisualizer == UpdateVisualizerData
SpecVisualizer == InitVisualizer /\ [][NextVisualizer]_vars

\* C20: for every delivered buffer of one frame or more, silence included,
\* the divisor that normalises the shifted frequency axis is not zero.
C20_AxisDivisorNonZero ==
    (viz.done /\ viz.frames >= 1) => viz.denominator # 0

(***************************************************************************)
(* main.py, the now-playing tracker.  main() runs lines 399-431 on its own *)
(* thread; the media session delivers its events on another thread, one    *)
(* handler at a time.  Each step is one access to a module global or one   *)
(* call on the session, so the two threads interleave between accesses.    *)
(* A timer event is taken from the queue as soon as it is posted.          *)
(***************************************************************************)
InitTracker ==
    /\ MainAtInitialUpdate
    /\ directory = NoDirectoryCall
    /\ strip = NoStripCall
    /\ viz = NoVizCall
    /\ \E mgr \in {"ApiAdapter", NoAdapter} : TrackerImported(mgr)
    /\ tpc = [th \in Threads |-> IF th = "main" THEN "update_music_data" ELSE "idle"]
    /\ loc = [th \in Threads |-> IF th = "main" THEN [NoLocals EXCEPT !.kind = "startup"]
                                 ELSE NoLocals]

TrackerFrame == UNCHANGED <<mainVars, directory, strip, viz>>

\* Lines 393-398: the session calls the handler subscribed for the event;
\* any earlier pause is over with this later event.
EventDelivered(h) ==
    /\ tpc["callback"] = "idle"
    /\ loc' = [loc EXCEPT !["callback"] = [NoLocals EXCEPT !.kind = h]]
    /\ tpc' = [tpc EXCEPT !["callback"] =
                  CASE h = "media_properties_changed" -> "update_music_data"
                    [] h = "playback_info_changed" -> "get_media_playback_status"
                    [] h = "timeline_properties_changed" -> "get_media_timeline_data"]
    /\ paused' = FALSE
    /\ UNCHANGED <<trackerGlobals, drawn, tick, currentOf, configured, fellBack>>
    /\ TrackerFrame

\* An exception leaves main() and ends the handler's call.
RaisedIn(th) == IF th = "main" THEN "raised" ELSE "return"

\* Lines 282-284, with a cached mode switch: the adapter is dropped.
UpdateMusicDataFallbackCached(th, tried) ==
    /\ snapshot' = SessionSong
    /\ loc' = [loc EXCEPT ![th].reads = @ \union tried \union {"metadata"},
                          ![th].writes = @ \union {"metadata"},
                          ![th].source = "session",
                          ![th].outcome = IF tried = {} THEN "" ELSE "KeyError",
                          ![th].afterFallback = fellBack,
                          ![th].song = SessionSong]
    /\ tpc' = [tpc EXCEPT ![th] = "get_media_timeline_data"]
    /\ fellBack' = TRUE
    /\ music_mgr' = NoAdapter

\* Lines 282-284: title and artist from the session, the backup thumbnail.
UpdateMusicDataFallback(th, tried) ==
    /\ snapshot' = SessionSong
    /\ loc' = [loc EXCEPT ![th].reads = @ \union tried \union {"metadata"},
                          ![th].writes = @ \union {"metadata"},
                          ![th].source = "session",
                          ![th].outcome = IF tried = {} THEN "" ELSE "KeyError",
                          ![th].afterFallback = fellBack,
                          ![th].song = SessionSong]
    /\ tpc' = [tpc EXCEPT ![th] = "get_media_timeline_data"]
    /\ fellBack' = TRUE
    /\ music_mgr' = music_mgr

\* Lines 277-281: the adapter gave a song and its thumbnail decoded.
UpdateMusicDataAdapter(th) ==
    /\ snapshot' = AdapterSong
    /\ loc' = [loc EXCEPT ![th].reads = @ \union {"adapter"},
                          ![th].writes = @ \union {"metadata"},
                          ![th].source = "adapter",
                          ![th].outcome = "song",
                          ![th].afterFallback = fellBack,
                          ![th].song = AdapterSong]
    /\ tpc' = [tpc EXCEPT ![th] = "get_media_timeline_data"]
    /\ UNCHANGED <<fellBack, music_mgr>>

\* Lines 277-281 raising anything but KeyError: nothing is shown and the
\* exception leaves update_music_data.
UpdateMusicDataRaises(th) ==
    /\ loc' = [loc EXCEPT ![th].reads = @ \union {"adapter"},
                          ![th].source = "raised",
                          ![th].outcome = "error",
                          ![th].afterFallback = fellBack]
    /\ tpc' = [tpc EXCEPT ![th] = RaisedIn(th)]
    /\ UNCHANGED <<snapshot, fellBack, music_mgr>>

\* update_music_data, lines 270-296.
UpdateMusicData(th) ==
    /\ tpc[th] = "update_music_data"
    /\ IF music_mgr = NoAdapter
       THEN UpdateMusicDataFallback(th, {})
       ELSE \E outcome \in AdapterOutcomes :
               CASE outcome = "song" -> UpdateMusicDataAdapter(th)
                 [] outcome = "KeyError" -> UpdateMusicDataFallback(th, {"adapter"})
                 [] outcome = "error" -> UpdateMusicDataRaises(th)
    /\ UNCHANGED <<CURRENT_SONG_TIME, TOTAL_SONG_TIME, timerArmed, drawn, tick,
                   currentOf, configured, paused>>
    /\ TrackerFrame

\* update_timeline, line 313: one read of the session's timeline properties.
GetMediaTimelineData(th) ==
    /\ tpc[th] = "get_media_timeline_data"
    /\ \E t \in Timelines :
           loc' = [loc EXCEPT ![th].reads = @ \union {"timeline"},
                              ![th].current_timedelta = t[1],
                              ![th].total_timedelta = t[2]]
    /\ tpc' = [tpc EXCEPT ![th] = "update_total"]
    /\ UNCHANGED <<trackerGlobals, drawn, tick, trackerHist>>
    /\ TrackerFrame

\* update_timeline, lines 315-316.
UpdateTimelineTotal(th) ==
    /\ tpc[th] = "update_total"
    /\ TOTAL_SONG_TIME' = loc[th].total_timedelta
    /\ loc' = [loc EXCEPT ![th].writes =
                  IF TOTAL_SONG_TIME # loc[th].total_timedelta
                  THEN @ \union {"timeline"} ELSE @]
    /\ tpc' = [tpc EXCEPT ![th] = "update_current"]
    /\ UNCHANGED <<CURRENT_SONG_TIME, timerArmed, music_mgr, snapshot, drawn, tick,
                   trackerHist>>
    /\ TrackerFrame

\* Where the caller of update_timeline goes on: line 400 in main(), line 308
\* in update_playback_data, the end of the other two handlers.
AfterUpdateTimeline(kind) ==
    CASE kind = "startup" -> "draw_current"
      [] kind = "playback_info_changed" -> "set_timer"
      [] OTHER -> "return"

\* update_timeline, lines 318-319.
UpdateTimelineCurrent(th) ==
    /\ tpc[th] = "update_current"
    /\ CURRENT_SONG_TIME' = loc[th].current_timedelta
    /\ currentOf' = loc[th].total_timedelta
    /\ loc' = [loc EXCEPT ![th] =
                  IF th = "main" THEN [NoLocals EXCEPT !.kind = loc[th].kind]
                  ELSE [@ EXCEPT !.writes =
                           IF CURRENT_SONG_TIME # loc[th].current_timedelta
                           THEN @ \union {"timeline"} ELSE @]]
    /\ tpc' = [tpc EXCEPT ![th] = AfterUpdateTimeline(loc[th].kind)]
    /\ UNCHANGED <<TOTAL_SONG_TIME, timerArmed, music_mgr, snapshot, drawn, tick,
                   configured, fellBack, paused>>
    /\ TrackerFrame

\* update_playback_data, lines 301-306: PAUSED disarms the timer, PLAYING
\* goes on to update_timeline, any other status does nothing.
GetMediaPlaybackStatus ==
    /\ tpc["callback"] = "get_media_playback_status"
    /\ \E playback_status \in PlaybackStatus :
        /\ loc' = [loc EXCEPT !["callback"].reads = @ \union {"playback"},
                              !["callback"].playback_status = playback_status]
        /\ timerArmed' = IF playback_status = "PAUSED" THEN FALSE ELSE timerArmed
        /\ tpc' = [tpc EXCEPT !["callback"] =
                      IF playback_status = "PLAYING" THEN "get_media_timeline_data"
                      ELSE "return"]
    /\ UNCHANGED <<CURRENT_SONG_TIME, TOTAL_SONG_TIME, music_mgr, snapshot, drawn, tick,
                   trackerHist>>
    /\ TrackerFrame

\* update_playback_data, line 308.
SetTimer ==
    /\ tpc["callback"] = "set_timer"
    /\ timerArmed' = TRUE
    /\ tpc' = [tpc EXCEPT !["callback"] = "return"]
    /\ UNCHANGED <<CURRENT_SONG_TIME, TOTAL_SONG_TIME, music_mgr, snapshot, loc, drawn,
                   tick, trackerHist>>
    /\ TrackerFrame

\* The handler's call ends.
HandlerReturn ==
    /\ tpc["callback"] = "return"
    /\ tpc' = [tpc EXCEPT !["callback"] = "idle"]
    /\ paused' = (/\ loc["callback"].kind = "playback_info_changed"
                  /\ loc["callback"].playback_status = "PAUSED")
    /\ loc' = [loc EXCEPT !["callback"] = NoLocals]
    /\ UNCHANGED <<trackerGlobals, drawn, tick, currentOf, configured, fellBack>>
    /\ TrackerFrame

\* draw_timeline, lines 324-328: the elapsed-time label.
DrawCurrent ==
    /\ tpc["main"] = "draw_current"
    /\ drawn' = [current |-> CURRENT_SONG_TIME, of |-> currentOf, total |-> Unread]
    /\ tpc' = [tpc EXCEPT !["main"] = "draw_total"]
    /\ UNCHANGED <<trackerGlobals, loc, tick, trackerHist>>
    /\ TrackerFrame

\* draw_timeline, lines 329-333: the total-time label.
DrawTotal ==
    /\ tpc["main"] = "draw_total"
    /\ drawn' = [drawn EXCEPT !.total = TOTAL_SONG_TIME]
    /\ tpc' = [tpc EXCEPT !["main"] = "draw_spacing"]
    /\ UNCHANGED <<trackerGlobals, loc, tick, trackerHist>>
    /\ TrackerFrame

\* draw_timeline, lines 357-359: the progress ratio; float division by 0.0
\* raises ZeroDivisionError.  Then back to line 403 or on to line 416.
DrawSpacing ==
    /\ tpc["main"] = "draw_spacing"
    /\ tpc' = [tpc EXCEPT !["main"] =
                  IF TOTAL_SONG_TIME = 0 THEN RaisedIn("main")
                  ELSE IF loc["main"].kind = "startup" THEN "loop"
                  ELSE "tick_read"]
    /\ drawn' = NothingDrawn
    /\ UNCHANGED <<trackerGlobals, loc, tick, trackerHist>>
    /\ TrackerFrame

\* Line 410: pygame.event.get() hands over a timer event of the armed timer.
LoopTimer ==
    /\ tpc["main"] = "loop"
    /\ timerArmed
    /\ CURRENT_SONG_TIME <= MaxTime
    /\ tpc' = [tpc EXCEPT !["main"] = "timer_event"]
    /\ UNCHANGED <<trackerGlobals, loc, drawn, tick, trackerHist>>
    /\ TrackerFrame

\* Line 414: `event.type == timer and CURRENT_SONG_TIME`; a timedelta of zero
\* is falsy, and the event is dropped then.
TimerGuard ==
    /\ tpc["main"] = "timer_event"
    /\ IF CURRENT_SONG_TIME # 0
       THEN /\ tpc' = [tpc EXCEPT !["main"] = "draw_current"]
            /\ loc' = [loc EXCEPT !["main"].kind = "timer"]
       ELSE /\ tpc' = [tpc EXCEPT !["main"] = "loop"]
            /\ UNCHANGED loc
    /\ UNCHANGED <<trackerGlobals, drawn, tick, trackerHist>>
    /\ TrackerFrame

\* Line 416, right-hand side: CURRENT_SONG_TIME is read.
TickRead ==
    /\ tpc["main"] = "tick_read"
    /\ tick' = [read |-> CURRENT_SONG_TIME, of |-> currentOf]
    /\ tpc' = [tpc EXCEPT !["main"] = "tick_write"]
    /\ UNCHANGED <<trackerGlobals, loc, drawn, trackerHist>>
    /\ TrackerFrame

\* Lines 416-418: the sum is stored.
TickWrite ==
    /\ tpc["main"] = "tick_write"
    /\ CURRENT_SONG_TIME' = tick.read + 1
    /\ currentOf' = tick.of
    /\ tick' = NoTick
    /\ tpc' = [tpc EXCEPT !["main"] = "loop"]
    /\ UNCHANGED <<TOTAL_SONG_TIME, timerArmed, music_mgr, snapshot, loc, drawn,
                   configured, fellBack, paused>>
    /\ TrackerFrame

\* Lines 411-412 and 433: QUIT ends the loop.
LoopQuit ==
    /\ tpc["main"] = "loop"
    /\ tpc' = [tpc EXCEPT !["main"] = "exited"]
    /\ UNCHANGED <<trackerGlobals, loc, drawn, tick, trackerHist>>
    /\ TrackerFrame

NextTracker ==
    \/ \E h \in Handlers : EventDelivered(h)
    \/ \E th \in Threads : UpdateMusicData(th)
    \/ \E th \in Threads : GetMediaTimelineData(th)
    \/ \E th \in Threads : UpdateTimelineTotal(th)
    \/ \E th \in Threads : UpdateTimelineCurrent(th)
    \/ GetMediaPlaybackStatus
    \/ SetTimer
    \/ HandlerReturn
    \/ DrawCurrent
    \/ DrawTotal
    \/ DrawSpacing
    \/ LoopTimer
    \/ TimerGuard
    \/ TickRead
    \/ TickWrite
    \/ LoopQuit

SpecTracker == InitTracker /\ [][NextTracker]_vars

\* C12: each event handler touches only its own facet: the handler of a
\* metadata change neither reads nor writes the timeline, and the handler of a
\* timeline change neither reads nor writes title, artists and thumbnail.
C12_HandlersTouchOwnFacet ==
    LET call == loc["callback"]
    IN  /\ call.kind = "media_properties_changed"
               => "timeline" \notin (call.reads \union call.writes)
        /\ call.kind = "timeline_properties_changed"
               => /\ call.reads \cap {"metadata", "adapter"} = {}
                  /\ "metadata" \notin call.writes

\* C13: the (current position, total duration) pair draw_timeline reads comes
\* from one timeline read: the total it reads is the total of the read its
\* position comes from.
C13_NoTornTimelinePair ==
    tpc["main"] = "draw_spacing" => drawn.total = drawn.of

\* C14: the tick never stores a sum computed from a position older than the
\* one it overwrites: what line 416 overwrites is what it had read.
C14_TickKeepsFreshPosition ==
    [][TickWrite => CURRENT_SONG_TIME = tick.read]_vars

\* C15: when the handler of a Paused playback event returns the timer is
\* disarmed, and no tick then advances the elapsed time until the next event;
\* when the handler of a Playing event returns the timer is armed and the
\* handler has made a timeline read.
C15_PauseSuspendsPlayResumes ==
    /\ [](LET call == loc["callback"]
          IN  (tpc["callback"] = "return" /\ call.kind = "playback_info_changed") =>
                  /\ call.playback_status = "PAUSED" => ~timerArmed
                  /\ call.playback_status = "PLAYING" =>
                         (timerArmed /\ "timeline" \in call.reads))
    /\ [][paused => ~TickWrite]_vars

\* C16: every metadata update on its own tries the adapter first when one is
\* configured; with no adapter configured, or with the adapter raising
\* KeyError, that update shows the session's title and artist and the backup
\* thumbnail; and no fallback makes a later update skip the adapter.
C16_FallbackPerUpdate ==
    /\ music_mgr = configured
    /\ \A th \in Threads :
           loc[th].source # "" =>
               /\ configured # NoAdapter => "adapter" \in loc[th].reads
               /\ configured = NoAdapter => "adapter" \notin loc[th].reads
               /\ (configured = NoAdapter \/ loc[th].outcome = "KeyError")
                      => (loc[th].source = "session" /\ loc[th].song = SessionSong)
               /\ loc[th].outcome = "song"
                      => (loc[th].source = "adapter" /\ loc[th].song = AdapterSong)

\* An update that follows an earlier update's fallback has shown the
\* adapter's song.
C16_Witness ==
    \E th \in Threads :
        /\ loc[th].afterFallback
        /\ loc[th].source = "adapter"
        /\ snapshot = AdapterSong

\* The arrays of a drawn buffer before the sort, in bin order.
AxisInBinOrder == Array(NormalisedAxis(Array(ShiftedAxis(viz.frames))))
LeftInBinOrder == Array(AbsFft(Array(Column(viz.indata, 0))))
RightInBinOrder == Array(AbsFft(Array(Column(viz.indata, 1))))
Drawn == viz.done /\ viz.raised = ""

\* C21: after the sort the axis ascends and, at every output index, the
\* position and the left and right magnitudes are those of one and the same
\* frequency bin.
C21_OnePermutation ==
    Drawn =>
        \E axis \in {AxisInBinOrder}, left \in {LeftInBinOrder}, right \in {RightInBinOrder} :
            /\ \A i, j \in 1..viz.frames :
                   i < j => ~RatLess(viz.left_xf[j], viz.left_xf[i])
            /\ \A i \in 1..viz.frames :
                   \E bin \in 1..viz.frames :
                       /\ viz.left_xf[i] = axis[bin]
                       /\ viz.left_yf[i] = left[bin]
                       /\ viz.right_yf[i] = right[bin]

\* A buffer whose sort moved bins and whose magnitudes differ between bins
\* and between channels.
C21_Witness ==
    /\ Drawn
    /\ viz.frames >= 4
    /\ viz.left_yf # LeftInBinOrder
    /\ viz.right_yf # RightInBinOrder
    /\ viz.left_yf # viz.right_yf

\* C22: a failure raised while one buffer is processed does not leave the
\* callback: the stream stays active for later buffers and the surface still
\* shows the last good frame.
C22_CallbackFailuresSwallowed ==
    (viz.done /\ viz.raised # "") =>
        /\ ~viz.propagated
        /\ viz.stream = "active"
        /\ viz.surface = LastGoodFrame

\* ceil(n / 3), stated without the code's rounding expression.
CeilThird(n) == CHOOSE c \in 0..n : 3 * (c - 1) < n /\ n <= 3 * c
\* The mean of the bins lo..hi of an array of positions.
MeanOfBins(positions, lo, hi) ==
    LET total == RatSum(SubSeq(positions, lo, hi))
    IN  Rat(total.num, total.den * (hi - lo + 1))
\* The bar of chunk k (from 0) over the sorted arrays: the consecutive bins
\* 3k+1..3k+3 of them, cut at n, averaged over the bins actually held.
ChunkBar(positions, magnitudes, k, n, tenths) ==
    LET lo == 3 * k + 1
        hi == IF 3 * k + 3 <= n THEN 3 * k + 3 ELSE n
    IN  [x |-> MeanOfBins(positions, lo, hi),
         yf |-> [squares |-> SubSeq(magnitudes, lo, hi), den |-> hi - lo + 1],
         tenths |-> tenths]

\* C23: a buffer of n bins gives ceil(n/3) left bars, ceil(n/3) right bars
\* and 2*ceil(n/3) tips; chunk k averages the sorted bins 3k..3k+2, and a
\* final partial chunk is averaged over the bins it holds.
C23_ChunkedGeometry ==
    Drawn =>
        \E n \in {viz.frames} : \E count \in {CeilThird(n)} :
            /\ Len(viz.left_points) = count
            /\ Len(viz.right_points) = count
            /\ Len(viz.tips) = 2 * count
            /\ \A k \in 0..(count - 1) :
                   /\ viz.left_points[k + 1] = ChunkBar(viz.left_xf, viz.left_yf, k, n, 18)
                   /\ viz.right_points[k + 1] = ChunkBar(viz.right_xf, viz.right_yf, k, n, 18)
                   /\ viz.tips[2 * k + 1] = ChunkBar(viz.left_xf, viz.left_yf, k, n, 20)
                   /\ viz.tips[2 * k + 2] = ChunkBar(viz.right_xf, viz.right_yf, k, n, 20)

\* A drawn buffer whose last chunk is partial and not silent, after a full
\* chunk.
C23_Witness ==
    /\ Drawn
    /\ viz.frames = 4
    /\ Len(viz.left_points) = 2
    /\ viz.left_points[2].yf.den = 1
    /\ viz.left_points[2].yf.squares # <<0>>
    /\ viz.left_points[1].yf.den = 3

\* C24: whenever draw_timeline computes the progress ratio, the total
\* duration is not zero.
C24_TotalNonZeroAtRatio ==
    tpc["main"] = "draw_spacing" => TOTAL_SONG_TIME # 0

\* C25: a tick never advances the elapsed time beyond the total duration of
\* the track.
C25_ElapsedWithinTotal ==
    [][TickWrite => CURRENT_SONG_TIME' <= TOTAL_SONG_TIME']_vars

\* C26: with the timer armed and no pause in effect, every timer event is
\* taken: the timeline is drawn and the elapsed time advanced, at position
\* zero too.
C26_EveryTickAdvances ==
    [][(TimerGuard /\ timerArmed /\ ~paused) => tpc'["main"] = "draw_current"]_vars

====
